---- MODULE Spec2Model ----
(***************************************************************************)
(* Model of skulpin-renderer/src/skia_support.rs: VkSkiaContext (the       *)
(* shared-context builder and its proc resolver) and VkSkiaSurface (the    *)
(* bridged-surface builder).  Raw handles and function pointers are        *)
(* naturals, 0 being the null handle / null pointer.                       *)
(***************************************************************************)
EXTENDS Integers, Sequences, FiniteSets, TLC

\* ------------------------------------------------------------------------
\* Bounds
\* ------------------------------------------------------------------------
MaxSubmits == 2    \* submissions of the other thread
MaxSurfaces == 2   \* calls of VkSkiaSurface::new
MaxClones == 1     \* extra references to one image view held by consumers

\* ------------------------------------------------------------------------
\* Values of the Vulkan API used by the file
\* ------------------------------------------------------------------------
NullPtr == 0
VK_SUCCESS == 0

\* vk::make_version(major, minor, patch): (major << 22) | (minor << 12) | patch
make_version(major, minor, patch) ==
    major * 4194304 + minor * 4096 + patch

version_major(v) == v \div 4194304
version_minor(v) == (v \div 4096) % 1024
version_patch(v) == v % 4096

HookedName == "vkEnumerateInstanceVersion"

\* ------------------------------------------------------------------------
\* The borrowed device context and queue (handles as raw u64 values)
\* ------------------------------------------------------------------------
InstanceHandle == 11
PhysicalDeviceHandle == 12
DeviceHandle == 13
QueueHandle == 14
GraphicsQueueFamily == 2

\* Address of VkSkiaContext::enumerate_instance_version_hooked
HookPtr == 900

\* Names the 2D library asks the resolver for (all are Vulkan entry-point
\* names, hence ASCII); the last one is an entry point the loader lacks.
GlobalFns == {"vkEnumerateInstanceVersion", "vkCreateInstance"}
InstanceFns == {"vkCreateDevice"}
DeviceFns == {"vkQueueSubmit"}
QueryNames == GlobalFns \cup InstanceFns \cup DeviceFns \cup {"vkCmdDrawMissingEXT"}

LoaderAddr(name) ==
    CASE name = "vkEnumerateInstanceVersion" -> 101
      [] name = "vkCreateInstance" -> 102
      [] name = "vkCreateDevice" -> 103
      [] name = "vkQueueSubmit" -> 104
      [] OTHER -> NullPtr

None == [some |-> FALSE, f |-> NullPtr]
Some(f) == [some |-> TRUE, f |-> f]

\* vk::Instance::from_raw / vk::Device::from_raw: the handle with the raw value
from_raw(raw) == raw

\* entry.get_instance_proc_addr: the real instance-level resolver
get_instance_proc_addr(instance, name) ==
    IF instance = NullPtr
    THEN IF name \in GlobalFns THEN Some(LoaderAddr(name)) ELSE None
    ELSE IF instance = InstanceHandle /\ LoaderAddr(name) # NullPtr
         THEN Some(LoaderAddr(name))
         ELSE None

\* instance.get_device_proc_addr: the real device-level resolver
get_device_proc_addr(device, name) ==
    IF device = DeviceHandle /\ name \in DeviceFns
    THEN Some(LoaderAddr(name) + 100)
    ELSE None

\* CStr::to_string_lossy / CStr::to_str on an entry-point name
NameIsUtf8(name) == name \in STRING
to_string_lossy(name) == IF NameIsUtf8(name) THEN name ELSE "\\uFFFD"

GetProcOf ==
    [kind : {"Instance", "Device"},
     handle : {NullPtr, InstanceHandle, DeviceHandle},
     name : QueryNames]

\* get_proc with the resolvers of the two arms exchanged
get_proc_swapped(of) ==
    IF of.kind = "Instance"
    THEN IF to_string_lossy(of.name) = HookedName
         THEN Some(HookPtr)
         ELSE get_device_proc_addr(from_raw(of.handle), of.name)
    ELSE get_instance_proc_addr(from_raw(of.handle), of.name)

\* VkSkiaContext::get_proc
get_proc(of) ==
    IF of.kind = "Instance"
    THEN IF to_string_lossy(of.name) = HookedName
         THEN Some(HookPtr)
         ELSE get_instance_proc_addr(from_raw(of.handle), of.name)
    ELSE get_device_proc_addr(from_raw(of.handle), of.name)

\* The get_proc closure of VkSkiaContext::new: pointer handed to the library,
\* whether an error line is logged, whether formatting the line panics
get_proc_closure(of) ==
    LET r == get_proc(of) IN
    IF r.some
    THEN [ptr |-> r.f, logged |-> FALSE, panics |-> FALSE]
    ELSE [ptr |-> NullPtr, logged |-> NameIsUtf8(of.name),
          panics |-> ~NameIsUtf8(of.name)]

\* a hook reporting version 1.1
enumerate_instance_version_hooked_1_1 ==
    [written |-> make_version(1, 1, 0), ret |-> VK_SUCCESS]

\* VkSkiaContext::enumerate_instance_version_hooked: the value written
\* through p_api_version and the returned vk::Result
enumerate_instance_version_hooked ==
    [written |-> make_version(1, 0, 0), ret |-> VK_SUCCESS]

\* ------------------------------------------------------------------------
\* State
\* ------------------------------------------------------------------------
VARIABLES
    devIsVk,         \* device_context.vk_device_context() is Some
    queueIsVk,       \* queue.vk_queue() is Some
    realVersion,     \* API version the real instance supports
    ctxPc,           \* position of the thread running VkSkiaContext::new
    panicCause,      \* the unwrap that panicked, "" if none
    lockOwner,       \* holder of the queue's handle mutex
    poisoned,        \* the mutex is poisoned
    lockResult,      \* what lock() returned to the builder
    vk_queue_handle, \* the builder's local copy of the queue handle
    backend_context, \* skia_safe::gpu::vk::BackendContext built at line 46
    context,         \* the returned VkSkiaContext
    newVulkanCalls,  \* calls made to gpu::Context::new_vulkan
    lastQuery,       \* last resolver query of the library and its answer
    errorLog,        \* names logged by error!("resolve of {} failed")
    apiVersionOut,   \* *p_api_version of the library's last call of the hook
    hookRet,         \* vk::Result of that call, -1 before any call
    subPc,           \* another thread submitting on the same queue
    submits          \* submissions that thread has completed

ctxVars ==
    <<devIsVk, queueIsVk, realVersion, ctxPc, panicCause, lockOwner, poisoned,
      lockResult, vk_queue_handle, backend_context, context, newVulkanCalls,
      lastQuery, errorLog, apiVersionOut, hookRet, subPc, submits>>

VARIABLES
    n32,             \* skia_safe::ColorType::n32() on this platform
    builds,          \* calls of VkSkiaSurface::new so far
    lastExtents,     \* extents of the last call
    lastEnv,         \* what the libraries answered during the last call
    last,            \* outcome of the last call
    surfaces,        \* per call: the VkSkiaSurface returned and its resources
    skiaFrees,       \* per native image: frees by the 2D library
    frameworkFrees   \* per native image: frees by the framework's allocator

surfVars ==
    <<n32, builds, lastExtents, lastEnv, last, surfaces, skiaFrees,
      frameworkFrees>>

vars == <<ctxVars, surfVars>>

NoContext == [valid |-> FALSE]
NoQuery == [asked |-> FALSE]
RealVersions == {make_version(1, 0, 0), make_version(1, 1, 0), make_version(1, 2, 0)}

CtxInit ==
    /\ devIsVk \in BOOLEAN
    /\ queueIsVk \in BOOLEAN
    /\ realVersion \in RealVersions
    /\ ctxPc = "start"
    /\ panicCause = ""
    /\ lockOwner = "none"
    /\ poisoned = FALSE
    /\ lockResult = "none"
    /\ vk_queue_handle = NullPtr
    /\ backend_context = NoContext
    /\ context = NoContext
    /\ newVulkanCalls = 0
    /\ lastQuery = NoQuery
    /\ errorLog = {}
    /\ apiVersionOut = realVersion
    /\ hookRet = -1
    /\ subPc = "idle"
    /\ submits = 0

\* ------------------------------------------------------------------------
\* VkSkiaContext::new, one action per step that another thread can observe
\* ------------------------------------------------------------------------

\* lines 21-45 up to the call of lock(): the two unwraps on the borrowed objects
CtxExtractHandles ==
    /\ ctxPc = "start"
    /\ IF ~devIsVk
       THEN ctxPc' = "panicked" /\ panicCause' = "vk_device_context"
       ELSE IF ~queueIsVk
            THEN ctxPc' = "panicked" /\ panicCause' = "vk_queue"
            ELSE ctxPc' = "lock" /\ UNCHANGED panicCause
    /\ UNCHANGED <<devIsVk, queueIsVk, realVersion, lockOwner, poisoned,
                   lockResult, vk_queue_handle, backend_context, context,
                   newVulkanCalls, lastQuery, errorLog, apiVersionOut, hookRet,
                   subPc, submits,
                   surfVars>>

\* line 45, Mutex::lock(): blocks while another thread holds the mutex; a
\* poisoned mutex is still acquired, the guard travelling inside the Err
CtxLock ==
    /\ ctxPc = "lock"
    /\ lockOwner = "none"
    /\ lockOwner' = "builder"
    /\ lockResult' = IF poisoned THEN "Err" ELSE "Ok"
    /\ ctxPc' = "locked"
    /\ UNCHANGED <<devIsVk, queueIsVk, realVersion, panicCause, poisoned,
                   vk_queue_handle, backend_context, context, newVulkanCalls,
                   lastQuery, errorLog, apiVersionOut, hookRet, subPc, submits,
                   surfVars>>

\* the guard bound to a local that lives to the end of the function
CtxCopyHandle_guard_kept ==
    /\ ctxPc = "locked"
    /\ lockOwner = "builder"
    /\ UNCHANGED lockOwner
    /\ IF lockResult = "Err"
       THEN /\ ctxPc' = "panicked"
            /\ panicCause' = "lock"
            /\ UNCHANGED vk_queue_handle
       ELSE /\ ctxPc' = "backend_ctx"
            /\ vk_queue_handle' = QueueHandle
            /\ UNCHANGED panicCause
    /\ UNCHANGED <<devIsVk, queueIsVk, realVersion, poisoned, lockResult,
                   backend_context, context, newVulkanCalls, lastQuery,
                   errorLog, apiVersionOut, hookRet, subPc, submits,
                   surfVars>>

\* line 45, the rest of the statement: unwrap() of the lock result, the copy
\* of the handle out of the guard, and the drop of the temporary guard at the
\* end of the let statement (or while unwinding from the unwrap)
CtxCopyHandle ==
    /\ ctxPc = "locked"
    /\ lockOwner = "builder"
    /\ lockOwner' = "none"
    /\ IF lockResult = "Err"
       THEN /\ ctxPc' = "panicked"
            /\ panicCause' = "lock"
            /\ UNCHANGED vk_queue_handle
       ELSE /\ ctxPc' = "backend_ctx"
            /\ vk_queue_handle' = QueueHandle
            /\ UNCHANGED panicCause
    /\ UNCHANGED <<devIsVk, queueIsVk, realVersion, poisoned, lockResult,
                   backend_context, context, newVulkanCalls, lastQuery,
                   errorLog, apiVersionOut, hookRet, subPc, submits,
                   surfVars>>

\* the arguments with the logical device passed for the physical one
BackendContext_new_swapped(queue_handle) ==
    [valid |-> TRUE,
     instance |-> InstanceHandle,
     physical_device |-> DeviceHandle,
     device |-> DeviceHandle,
     queue |-> <<queue_handle, GraphicsQueueFamily>>,
     get_proc |-> "get_proc"]

\* lines 46-55: the arguments of gpu::vk::BackendContext::new
BackendContext_new(queue_handle) ==
    [valid |-> TRUE,
     instance |-> InstanceHandle,
     physical_device |-> PhysicalDeviceHandle,
     device |-> DeviceHandle,
     queue |-> <<queue_handle, GraphicsQueueFamily>>,
     get_proc |-> "get_proc"]

\* lines 44-56, gpu::vk::BackendContext::new
CtxBackendContext ==
    /\ ctxPc = "backend_ctx"
    /\ backend_context' = BackendContext_new(vk_queue_handle)
    /\ ctxPc' = "gpu_ctx"
    /\ UNCHANGED <<devIsVk, queueIsVk, realVersion, panicCause, lockOwner,
                   poisoned, lockResult, vk_queue_handle, context,
                   newVulkanCalls, lastQuery, errorLog, apiVersionOut, hookRet,
                   subPc, submits,
                   surfVars>>

\* lines 29-37: the library calls the resolver while it builds its context
ResolveProc ==
    /\ ctxPc = "gpu_ctx"
    /\ \E of \in GetProcOf :
          LET r == get_proc_closure(of) IN
          /\ lastQuery' = [asked |-> TRUE, of |-> of, ptr |-> r.ptr,
                           logged |-> r.logged]
          /\ errorLog' = IF r.logged THEN errorLog \cup {of.name} ELSE errorLog
          /\ IF r.panics
             THEN ctxPc' = "panicked" /\ panicCause' = "to_str"
             ELSE UNCHANGED <<ctxPc, panicCause>>
    /\ UNCHANGED <<devIsVk, queueIsVk, realVersion, lockOwner, poisoned,
                   lockResult, vk_queue_handle, backend_context, context,
                   newVulkanCalls, apiVersionOut, hookRet, subPc, submits,
                   surfVars>>

\* lines 69-72: the library calls the pointer it was given for its last query
\* when that pointer is the hook
CallHook ==
    /\ ctxPc = "gpu_ctx"
    /\ lastQuery.asked
    /\ lastQuery.ptr = HookPtr
    /\ apiVersionOut' = enumerate_instance_version_hooked.written
    /\ hookRet' = enumerate_instance_version_hooked.ret
    /\ UNCHANGED <<devIsVk, queueIsVk, realVersion, ctxPc, panicCause,
                   lockOwner, poisoned, lockResult, vk_queue_handle,
                   backend_context, context, newVulkanCalls, lastQuery,
                   errorLog, subPc, submits,
                   surfVars>>

\* lines 58-60: gpu::Context::new_vulkan(&backend_context).unwrap() and return
CtxNewVulkan ==
    /\ ctxPc = "gpu_ctx"
    /\ newVulkanCalls' = newVulkanCalls + 1
    /\ \E created \in BOOLEAN :
          IF created
          THEN /\ context' = [valid |-> TRUE, from |-> backend_context]
               /\ ctxPc' = "done"
               /\ UNCHANGED panicCause
          ELSE /\ context' = NoContext
               /\ ctxPc' = "panicked"
               /\ panicCause' = "new_vulkan"
    /\ UNCHANGED <<devIsVk, queueIsVk, realVersion, lockOwner, poisoned,
                   lockResult, vk_queue_handle, backend_context, lastQuery,
                   errorLog, apiVersionOut, hookRet, subPc, submits,
                   surfVars>>

\* ------------------------------------------------------------------------
\* Another thread of the host application using the same queue
\* ------------------------------------------------------------------------
SubmitLock ==
    /\ subPc = "idle"
    /\ submits < MaxSubmits
    /\ lockOwner = "none"
    /\ lockOwner' = "submitter"
    /\ subPc' = "submitting"
    /\ UNCHANGED <<devIsVk, queueIsVk, realVersion, ctxPc, panicCause,
                   poisoned, lockResult, vk_queue_handle, backend_context,
                   context, newVulkanCalls, lastQuery, errorLog, apiVersionOut,
                   hookRet, submits,
                   surfVars>>

SubmitUnlock ==
    /\ subPc = "submitting"
    /\ lockOwner' = "none"
    /\ subPc' = "idle"
    /\ submits' = submits + 1
    /\ UNCHANGED <<devIsVk, queueIsVk, realVersion, ctxPc, panicCause,
                   poisoned, lockResult, vk_queue_handle, backend_context,
                   context, newVulkanCalls, lastQuery, errorLog, apiVersionOut,
                   hookRet,
                   surfVars>>

\* the submitting thread panics with the guard alive: the mutex is poisoned
SubmitPanic ==
    /\ subPc = "submitting"
    /\ lockOwner' = "none"
    /\ poisoned' = TRUE
    /\ subPc' = "dead"
    /\ UNCHANGED <<devIsVk, queueIsVk, realVersion, ctxPc, panicCause,
                   lockResult, vk_queue_handle, backend_context, context,
                   newVulkanCalls, lastQuery, errorLog, apiVersionOut, hookRet,
                   submits,
                   surfVars>>

\* ------------------------------------------------------------------------
\* VkSkiaSurface
\* ------------------------------------------------------------------------

\* A u32 as its two 16-bit halves
U32(hi, lo) == [hi |-> hi, lo |-> lo]

\* a saturating conversion in place of the `as` cast
as_i32_saturating(u) ==
    IF u.hi >= 32768
    THEN 2147483647
    ELSE u.hi * 65536 + u.lo

\* `u as i32`: the same 32 bits read as a two's complement number
as_i32(u) ==
    IF u.hi >= 32768
    THEN (u.hi - 65536) * 65536 + u.lo
    ELSE u.hi * 65536 + u.lo

\* RafxExtents2D values the callers pass
ExtentSamples ==
    {[width |-> U32(0, 0), height |-> U32(0, 0)],
     [width |-> U32(0, 0), height |-> U32(0, 16)],
     [width |-> U32(0, 1), height |-> U32(0, 1)],
     [width |-> U32(0, 1920), height |-> U32(0, 1080)],
     [width |-> U32(32768, 0), height |-> U32(0, 1)],
     [width |-> U32(0, 1920), height |-> U32(65535, 65535)]}

\* skia_safe::ColorType values ColorType::n32() is modelled to take
ColorTypes == {"RGBA8888", "BGRA8888", "RGB565"}

\* the match with its fallback arm yielding the BGRA format
RafxFormatOf_bgra_fallback(color_type) ==
    CASE color_type = "RGBA8888" -> [format |-> "R8G8B8A8_UNORM", warned |-> FALSE]
      [] color_type = "BGRA8888" -> [format |-> "B8G8R8A8_UNORM", warned |-> FALSE]
      [] OTHER -> [format |-> "B8G8R8A8_UNORM", warned |-> TRUE]

\* lines 151-158: the match on color_type
RafxFormatOf(color_type) ==
    CASE color_type = "RGBA8888" -> [format |-> "R8G8B8A8_UNORM", warned |-> FALSE]
      [] color_type = "BGRA8888" -> [format |-> "B8G8R8A8_UNORM", warned |-> FALSE]
      [] OTHER -> [format |-> "R8G8B8A8_UNORM", warned |-> TRUE]

\* Surface::new_render_target: the 2D library refuses an empty or negative
\* size and may run out of GPU memory for any other
new_render_target(width, height, memory_left, fresh_image) ==
    IF width <= 0 \/ height <= 0 \/ ~memory_left
    THEN None
    ELSE [some |-> TRUE, f |-> [image |-> fresh_image, width |-> width,
                                height |-> height]]

\* Surface::get_backend_texture(FlushRead): a backend texture describing the
\* image the surface draws to
get_backend_texture(surface, is_valid, has_vk_info) ==
    IF is_valid
    THEN [some |-> TRUE,
          f |-> [vulkan_image_info |->
                     IF has_vk_info THEN Some(surface.image) ELSE None]]
    ELSE None

\* VkSkiaSurface::get_image_from_skia_texture (NullPtr stands for the panic
\* of the unwrap; callers test vulkan_image_info.some first)
get_image_from_skia_texture(texture) ==
    IF texture.vulkan_image_info.some
    THEN texture.vulkan_image_info.f
    ELSE NullPtr

NoAllocation == "None"

\* a raw image record that claims an allocation of the framework
RafxRawImageVulkan_owned(image) == [allocation |-> "Some", image |-> image]

\* a raw image record made from the null image instead of the surface's
RafxRawImageVulkan_null(image) == [allocation |-> NoAllocation, image |-> NullPtr]

\* lines 162-165: the RafxRawImageVulkan literal
RafxRawImageVulkan(image) == [allocation |-> NoAllocation, image |-> image]

\* lines 170-180: the RafxTextureDef literal
RafxTextureDef(extents, format) ==
    [extents |-> [width |-> extents.width, height |-> extents.height, depth |-> 1],
     format |-> format,
     resource_type |-> "TEXTURE",
     sample_count |-> 1]

\* What the framework does with the memory of a raw image it lets go of:
\* it calls its allocator's free exactly when the record has an allocation
FrameworkFrees(raw_image) == raw_image.allocation # NoAllocation

\* Outcomes of the calls VkSkiaSurface::new makes into the two libraries
EnvOutcomes ==
    [memory_left : BOOLEAN,     \* new_render_target can allocate
     texture_valid : BOOLEAN,   \* get_backend_texture returns Some
     has_vk_info : BOOLEAN,     \* vulkan_image_info returns Some
     rm_is_vk : BOOLEAN,        \* resource manager's device context is Vulkan
     adopt_ok : BOOLEAN,        \* from_existing returns Ok
     view_ok : BOOLEAN]         \* get_or_create_image_view returns Ok

Failures(e) ==
    Cardinality({f \in {"memory_left", "texture_valid", "has_vk_info",
                        "rm_is_vk", "adopt_ok", "view_ok"} : ~e[f]})

\* new returns at the first call that fails, so one failure per call is enough
Env == {e \in EnvOutcomes : Failures(e) <= 1}

NoTexture == [vulkan_image_info |-> None]
NoRawImage == [allocation |-> NoAllocation, image |-> NullPtr]

Outcome(status, cause, sk_image, texture, warned, raw_image, def, inserted, viewed) ==
    [status |-> status,       \* "ok" (Ok), "err" (Err) or "panic"
     cause |-> cause,         \* the call that failed, "" for Ok
     sk_image |-> sk_image,   \* image the 2D library allocated, NullPtr if none
     texture |-> texture,     \* the backend texture read at lines 141-145
     warned |-> warned,       \* warn!("Unexpected native color type")
     raw_image |-> raw_image, \* record given to from_existing
     def |-> def,             \* RafxTextureDef given to from_existing
     inserted |-> inserted,   \* insert_image was called
     viewed |-> viewed]       \* an image view was created

NoDef == [format |-> "", resource_type |-> "", sample_count |-> 0]

\* the failure mapped to an Err instead of the unwrap
OnNone_err == "err"

\* line 139: .unwrap() of the Option new_render_target returns
OnNoSurface == "panic"

\* line 168: .unwrap() of resource manager's vk_device_context()
OnNoVkDevice == "panic"

\* VkSkiaSurface::new, lines 112-192, as a function of its arguments
\* (resource manager's backend in env), the platform's color type, the handle
\* the library gives its next image, and the libraries' outcomes
VkSkiaSurface_new(extents, color_type, env, fresh_image) ==
    LET surface == new_render_target(as_i32(extents.width), as_i32(extents.height),
                                     env.memory_left, fresh_image)
    IN
    IF ~surface.some
    THEN Outcome(OnNoSurface, "new_render_target", NullPtr, NoTexture, FALSE,
                 NoRawImage, NoDef, FALSE, FALSE)
    ELSE
    LET sk == surface.f.image
        tex == get_backend_texture(surface.f, env.texture_valid, env.has_vk_info)
    IN
    IF ~tex.some
    THEN Outcome("panic", "get_backend_texture", sk, NoTexture, FALSE,
                 NoRawImage, NoDef, FALSE, FALSE)
    ELSE
    LET texture == tex.f IN
    IF ~texture.vulkan_image_info.some
    THEN Outcome("panic", "vulkan_image_info", sk, texture, FALSE,
                 NoRawImage, NoDef, FALSE, FALSE)
    ELSE
    LET image == get_image_from_skia_texture(texture)
        fmt == RafxFormatOf(color_type)
        raw_image == RafxRawImageVulkan(image)
        def == RafxTextureDef(extents, fmt.format)
    IN
    IF ~env.rm_is_vk
    THEN Outcome(OnNoVkDevice, "vk_device_context", sk, texture, fmt.warned,
                 raw_image, NoDef, FALSE, FALSE)
    ELSE IF ~env.adopt_ok
    THEN Outcome("err", "from_existing", sk, texture, fmt.warned,
                 raw_image, def, FALSE, FALSE)
    ELSE IF ~env.view_ok
    THEN Outcome("err", "get_or_create_image_view", sk, texture, fmt.warned,
                 raw_image, def, TRUE, FALSE)
    ELSE Outcome("ok", "", sk, texture, fmt.warned, raw_image, def, TRUE, TRUE)

Calls == 1..MaxSurfaces

NoSurface ==
    [returned |-> FALSE, texture |-> NoTexture, table_image |-> NoRawImage,
     table_image_live |-> FALSE, def |-> NoDef, surface_alive |-> FALSE,
     sk_image |-> NullPtr, view_held |-> FALSE, clones |-> 0]

NoOutcome ==
    Outcome("none", "", NullPtr, NoTexture, FALSE, NoRawImage, NoDef, FALSE, FALSE)

SurfInit ==
    /\ n32 \in ColorTypes
    /\ builds = 0
    /\ lastExtents = [width |-> U32(0, 0), height |-> U32(0, 0)]
    /\ lastEnv = [memory_left |-> TRUE, texture_valid |-> TRUE,
                  has_vk_info |-> TRUE, rm_is_vk |-> TRUE, adopt_ok |-> TRUE,
                  view_ok |-> TRUE]
    /\ last = NoOutcome
    /\ surfaces = [c \in Calls |-> NoSurface]
    /\ skiaFrees = [c \in Calls |-> 0]
    /\ frameworkFrees = [c \in Calls |-> 0]

\* A call of VkSkiaSurface::new on the built context.  The c-th call's image
\* gets native handle c.  On Err or panic the locals are dropped: the 2D
\* library's surface (freeing its image) and, when insert_image had run, the
\* only reference to the table's image.
BuildSurface ==
    /\ ctxPc = "done"
    /\ context.valid
    /\ builds < MaxSurfaces
    /\ \E extents \in ExtentSamples, env \in Env :
          LET c == builds + 1
              r == VkSkiaSurface_new(extents, n32, env, c)
          IN
          /\ builds' = c
          /\ lastExtents' = extents
          /\ lastEnv' = env
          /\ last' = r
          /\ surfaces' =
                [surfaces EXCEPT ![c] =
                    [returned |-> r.status = "ok",
                     texture |-> IF r.status = "ok" THEN r.texture ELSE NoTexture,
                     table_image |-> IF r.inserted THEN r.raw_image ELSE NoRawImage,
                     table_image_live |-> r.inserted /\ r.viewed,
                     def |-> IF r.inserted THEN r.def ELSE NoDef,
                     surface_alive |-> r.status = "ok",
                     sk_image |-> r.sk_image,
                     view_held |-> r.status = "ok",
                     clones |-> 0]]
          /\ skiaFrees' =
                IF r.sk_image # NullPtr /\ r.status # "ok"
                THEN [skiaFrees EXCEPT ![r.sk_image] = @ + 1]
                ELSE skiaFrees
          /\ frameworkFrees' =
                IF r.inserted /\ ~r.viewed /\ FrameworkFrees(r.raw_image)
                THEN [frameworkFrees EXCEPT ![r.raw_image.image] = @ + 1]
                ELSE frameworkFrees
    /\ UNCHANGED <<n32, ctxVars>>

\* The references to slot c's image view: the field of the VkSkiaSurface and
\* the clones consumers hold
ViewRefs(s) == (IF s.view_held THEN 1 ELSE 0) + s.clones

\* Dropping one reference to the image view of call c.  With the last one the
\* view goes, and with it the table's image, which the framework releases.
ReleaseViewRef(c, s) ==
    /\ surfaces' = [surfaces EXCEPT ![c] =
                       [s EXCEPT !.table_image_live = ViewRefs(s) > 0]]
    /\ frameworkFrees' =
          IF ViewRefs(s) = 0 /\ FrameworkFrees(s.table_image)
          THEN [frameworkFrees EXCEPT ![s.table_image.image] = @ + 1]
          ELSE frameworkFrees

\* a consumer clones the ResourceArc<ImageViewResource>
CloneImageView ==
    /\ \E c \in Calls :
          /\ surfaces[c].view_held
          /\ surfaces[c].clones < MaxClones
          /\ surfaces' = [surfaces EXCEPT ![c].clones = @ + 1]
    /\ UNCHANGED <<n32, builds, lastExtents, lastEnv, last, skiaFrees,
                   frameworkFrees, ctxVars>>

\* a consumer drops its clone
DropClone ==
    /\ \E c \in Calls :
          /\ surfaces[c].clones > 0
          /\ ReleaseViewRef(c, [surfaces[c] EXCEPT !.clones = @ - 1])
    /\ UNCHANGED <<n32, builds, lastExtents, lastEnv, last, skiaFrees, ctxVars>>

\* the image_view field of a VkSkiaSurface is dropped
DropImageView ==
    /\ \E c \in Calls :
          /\ surfaces[c].view_held
          /\ ReleaseViewRef(c, [surfaces[c] EXCEPT !.view_held = FALSE])
    /\ UNCHANGED <<n32, builds, lastExtents, lastEnv, last, skiaFrees, ctxVars>>

\* the surface field of a VkSkiaSurface is dropped: the 2D library frees the
\* image it owns
DropSkiaSurface ==
    /\ \E c \in Calls :
          /\ surfaces[c].surface_alive
          /\ surfaces' = [surfaces EXCEPT ![c].surface_alive = FALSE]
          /\ skiaFrees' = [skiaFrees EXCEPT ![surfaces[c].sk_image] = @ + 1]
    /\ UNCHANGED <<n32, builds, lastExtents, lastEnv, last, frameworkFrees,
                   ctxVars>>

\* a whole VkSkiaSurface is dropped: its fields go in declaration order,
\* image_view before surface (lines 100-105)
DropVkSkiaSurface ==
    /\ \E c \in Calls :
          LET s == surfaces[c]
              t == [s EXCEPT !.view_held = FALSE, !.surface_alive = FALSE,
                             !.table_image_live = s.clones > 0]
          IN
          /\ s.view_held
          /\ s.surface_alive
          /\ surfaces' = [surfaces EXCEPT ![c] = t]
          /\ frameworkFrees' =
                IF s.clones = 0 /\ FrameworkFrees(s.table_image)
                THEN [frameworkFrees EXCEPT ![s.table_image.image] = @ + 1]
                ELSE frameworkFrees
          /\ skiaFrees' = [skiaFrees EXCEPT ![s.sk_image] = @ + 1]
    /\ UNCHANGED <<n32, builds, lastExtents, lastEnv, last, ctxVars>>

CtxNext ==
    \/ CtxExtractHandles
    \/ CtxLock
    \/ CtxCopyHandle
    \/ CtxBackendContext
    \/ ResolveProc
    \/ CallHook
    \/ CtxNewVulkan
    \/ SubmitLock
    \/ SubmitUnlock
    \/ SubmitPanic

SurfNext ==
    \/ BuildSurface
    \/ CloneImageView
    \/ DropClone
    \/ DropImageView
    \/ DropSkiaSurface
    \/ DropVkSkiaSurface

\* The context once VkSkiaContext::new has returned, no other thread running
BuiltContext ==
    /\ devIsVk = TRUE
    /\ queueIsVk = TRUE
    /\ realVersion \in RealVersions
    /\ ctxPc = "done"
    /\ panicCause = ""
    /\ lockOwner = "none"
    /\ poisoned = FALSE
    /\ lockResult = "Ok"
    /\ vk_queue_handle = QueueHandle
    /\ backend_context = BackendContext_new(QueueHandle)
    /\ context = [valid |-> TRUE, from |-> backend_context]
    /\ newVulkanCalls = 1
    /\ lastQuery = NoQuery
    /\ errorLog = {}
    /\ apiVersionOut = realVersion
    /\ hookRet = -1
    /\ subPc = "idle"
    /\ submits = 0

\* Before VkSkiaContext::new is called
CtxSpecInit == CtxInit /\ SurfInit

\* After VkSkiaContext::new has returned, before any VkSkiaSurface::new
SurfSpecInit == BuiltContext /\ SurfInit

\* VkSkiaContext::new with a thread submitting on the queue
CtxSpec == CtxSpecInit /\ [][CtxNext]_vars

\* VkSkiaSurface::new and the release of its results on a built context
SurfSpec == SurfSpecInit /\ [][SurfNext]_vars

\* ------------------------------------------------------------------------
\* Properties
\* ------------------------------------------------------------------------
Built == builds >= 1

IsZeroU32(u) == u.hi = 0 /\ u.lo = 0
IsNegativeAsI32(u) == u.hi >= 32768
InvalidExtents(e) ==
    \/ IsZeroU32(e.width) \/ IsZeroU32(e.height)
    \/ IsNegativeAsI32(e.width) \/ IsNegativeAsI32(e.height)

\* C1: every VkSkiaSurface that new returned has, as the image of its stored
\* backend texture, the very image the 2D library allocated for its surface,
\* and that image is the one in the raw image record given to from_existing
\* and kept in the resource table behind the returned image view.
C1_SameNativeImage ==
    /\ \A c \in Calls :
          surfaces[c].returned =>
              /\ get_image_from_skia_texture(surfaces[c].texture) # NullPtr
              /\ get_image_from_skia_texture(surfaces[c].texture) = surfaces[c].sk_image
              /\ surfaces[c].table_image.image = surfaces[c].sk_image
    /\ last.status = "ok" =>
          /\ last.raw_image.image = last.sk_image
          /\ last.texture.vulkan_image_info = Some(last.sk_image)

C1_Witness ==
    /\ builds = 2
    /\ surfaces[1].returned
    /\ surfaces[2].returned
    /\ surfaces[2].table_image.image = 2

\* C2: every image new registers carries no allocation handle; whatever the
\* order of builds and releases, the framework's allocator never frees a
\* native image and the 2D library frees each at most once.
C2_ForeignNeverFreedByFramework ==
    /\ last.raw_image.allocation = NoAllocation
    /\ \A c \in Calls :
          /\ surfaces[c].table_image.allocation = NoAllocation
          /\ frameworkFrees[c] = 0
          /\ skiaFrees[c] <= 1
          /\ skiaFrees[c] = 1 => ~surfaces[c].surface_alive

C2_Witness ==
    \E c \in Calls :
        /\ surfaces[c].returned
        /\ ~surfaces[c].surface_alive
        /\ ~surfaces[c].table_image_live
        /\ ~surfaces[c].view_held
        /\ surfaces[c].table_image.image = c
        /\ skiaFrees[c] = 1

\* C3 as stated: a query for "vkEnumerateInstanceVersion" is answered with
\* the override, and the override writes version 1.0 and returns SUCCESS.
C3_Original ==
    /\ (lastQuery.asked /\ lastQuery.of.name = HookedName) =>
           lastQuery.ptr = HookPtr
    /\ hookRet # -1 => apiVersionOut = 4194304 /\ hookRet = VK_SUCCESS

\* C3 amended: an instance-level query for "vkEnumerateInstanceVersion" is
\* answered with the override and not with the real resolver's pointer; a
\* device-level query for that name goes to the real device resolver; the
\* override writes version 1.0.0 and returns SUCCESS whatever the real version.
C3_InstanceLevelHook ==
    /\ (lastQuery.asked /\ lastQuery.of.name = HookedName) =>
           IF lastQuery.of.kind = "Instance"
           THEN /\ lastQuery.ptr = HookPtr
                /\ lastQuery.ptr # LoaderAddr(HookedName)
           ELSE LET real == get_device_proc_addr(lastQuery.of.handle, HookedName)
                IN lastQuery.ptr = (IF real.some THEN real.f ELSE NullPtr)
    /\ hookRet # -1 =>
           /\ apiVersionOut = 4194304
           /\ version_major(apiVersionOut) = 1
           /\ version_minor(apiVersionOut) = 0
           /\ version_patch(apiVersionOut) = 0
           /\ hookRet = VK_SUCCESS

C3_Witness ==
    /\ hookRet = VK_SUCCESS
    /\ realVersion = make_version(1, 2, 0)
    /\ lastQuery.of.kind = "Instance"
    /\ lastQuery.of.name = HookedName
    /\ lastQuery.ptr = HookPtr

\* The real resolver's answer to a query, as a pointer
RealPtr(of) ==
    LET real == IF of.kind = "Instance"
                THEN get_instance_proc_addr(of.handle, of.name)
                ELSE get_device_proc_addr(of.handle, of.name)
    IN IF real.some THEN real.f ELSE NullPtr

C5_LockOnlyForCopy ==
    /\ lockOwner = "builder" => ctxPc = "locked"
    /\ ctxPc \in {"backend_ctx", "gpu_ctx", "done", "panicked"} =>
           lockOwner # "builder"
    /\ lockOwner = "builder" => ENABLED CtxCopyHandle
    /\ (subPc = "submitting") = (lockOwner = "submitter")

C5_Witness ==
    /\ ctxPc = "gpu_ctx"
    /\ vk_queue_handle = QueueHandle
    /\ lockOwner = "submitter"
    /\ submits >= 1

\* C6: new returns a context only after every step succeeded, the context
\* being made from the four handles, the queue pair and the resolver; when
\* the device context or the queue is not Vulkan, the mutex is poisoned or
\* new_vulkan fails, it panics and no context exists; new_vulkan is called
\* at most once.
C6_AllOrNothing ==
    /\ ctxPc = "done" =>
           /\ context.valid
           /\ context.from.instance = InstanceHandle
           /\ context.from.physical_device = PhysicalDeviceHandle
           /\ context.from.device = DeviceHandle
           /\ context.from.queue = <<QueueHandle, GraphicsQueueFamily>>
           /\ context.from.get_proc = "get_proc"
           /\ devIsVk /\ queueIsVk /\ lockResult = "Ok"
           /\ panicCause = ""
           /\ newVulkanCalls = 1
    /\ ctxPc # "done" => context = NoContext
    /\ (~devIsVk \/ ~queueIsVk) => ctxPc \in {"start", "panicked"}
    /\ lockResult = "Err" => ctxPc \in {"locked", "panicked"}
    /\ (panicCause # "") = (ctxPc = "panicked")
    /\ newVulkanCalls <= 1
    /\ (newVulkanCalls = 1 /\ ctxPc = "panicked") => panicCause = "new_vulkan"

C6_Witness ==
    /\ ctxPc = "panicked"
    /\ panicCause = "new_vulkan"
    /\ newVulkanCalls = 1
    /\ backend_context.valid

\* The library could not allocate the surface during the last call
AllocFailed ==
    /\ Built
    /\ \/ ~lastEnv.memory_left
       \/ InvalidExtents(lastExtents)

\* C7 as stated: when the library fails to allocate the surface, new returns
\* an Err.
C7_Original == AllocFailed => last.status = "err"

\* C7 amended: when the library fails to allocate the surface, new panics at
\* the unwrap of new_render_target's result; an Err comes only from
\* from_existing or get_or_create_image_view.
C7_AllocFailurePanics ==
    /\ AllocFailed =>
           /\ last.status = "panic"
           /\ last.cause = "new_render_target"
           /\ ~last.inserted /\ ~last.viewed
           /\ ~surfaces[builds].returned
    /\ last.status = "err" =>
           last.cause \in {"from_existing", "get_or_create_image_view"}

C7_Witness ==
    /\ AllocFailed
    /\ ~lastEnv.memory_left
    /\ ~InvalidExtents(lastExtents)
    /\ last.status = "panic"

\* C8: for extents with a zero width or height, or one that is negative as
\* an i32, new fails, always the same way, before anything is adopted: no
\* image is allocated by the library, no raw image record or texture is
\* made, nothing enters the resource table and no VkSkiaSurface is returned.
C8_InvalidExtentsFail ==
    (Built /\ InvalidExtents(lastExtents)) =>
        /\ last.status \in {"err", "panic"}
        /\ last.status = "panic" /\ last.cause = "new_render_target"
        /\ last.sk_image = NullPtr
        /\ last.raw_image = NoRawImage
        /\ last.def = NoDef
        /\ ~last.inserted /\ ~last.viewed
        /\ surfaces[builds] = NoSurface
        /\ skiaFrees[builds] = 0 /\ frameworkFrees[builds] = 0

C8_Witness ==
    /\ Built
    /\ IsNegativeAsI32(lastExtents.height)
    /\ ~IsZeroU32(lastExtents.width)
    /\ Failures(lastEnv) = 0
    /\ last.status = "panic"

\* C9: the format given to from_existing depends only on the color type:
\* RGBA8888 gives R8G8B8A8_UNORM, BGRA8888 gives B8G8R8A8_UNORM, anything else
\* gives R8G8B8A8_UNORM with a warning; no call fails because of the mapping,
\* and all calls get the same format.
C9_FormatMapping ==
    /\ (Built /\ last.def # NoDef) =>
           /\ n32 = "RGBA8888" => last.def.format = "R8G8B8A8_UNORM" /\ ~last.warned
           /\ n32 = "BGRA8888" => last.def.format = "B8G8R8A8_UNORM" /\ ~last.warned
           /\ n32 \notin {"RGBA8888", "BGRA8888"} =>
                  last.def.format = "R8G8B8A8_UNORM" /\ last.warned
    /\ (Built /\ ~InvalidExtents(lastExtents) /\ Failures(lastEnv) = 0) =>
           last.status = "ok"
    /\ \A c, d \in Calls :
           (surfaces[c].def # NoDef /\ surfaces[d].def # NoDef) =>
               surfaces[c].def.format = surfaces[d].def.format

C9_Witness ==
    /\ n32 = "RGB565"
    /\ last.status = "ok"
    /\ last.warned
    /\ last.def.format = "R8G8B8A8_UNORM"

\* The last call reached the adoption with a resource manager whose device
\* context is not a Vulkan one
BackendMismatch ==
    /\ Built
    /\ ~lastEnv.rm_is_vk
    /\ ~InvalidExtents(lastExtents)

\* C10 as stated: a backend mismatch at the adoption comes back as an Err,
\* with nothing registered.
C10_Original ==
    BackendMismatch =>
        /\ last.status = "err"
        /\ ~last.inserted /\ ~last.viewed

\* C10 amended: a backend mismatch at the adoption makes new panic at the
\* unwrap of vk_device_context(), before from_existing is called; no image
\* and no image view is registered, and the surface already allocated is
\* dropped with its image.
C10_MismatchPanics ==
    BackendMismatch =>
        /\ last.status = "panic"
        /\ last.cause = "vk_device_context"
        /\ last.def = NoDef
        /\ ~last.inserted /\ ~last.viewed
        /\ ~surfaces[builds].returned
        /\ ~surfaces[builds].table_image_live
        /\ skiaFrees[builds] = 1

C10_Witness ==
    /\ BackendMismatch
    /\ last.status = "panic"
    /\ last.sk_image = builds
    /\ builds = 2

====
